---- MODULE Spec2Model ----
(***************************************************************************)
(* Windowing ETL of the fall-detection platform                            *)
(* (services/etl/make_windows.py): window_iter, featureize,                *)
(* majority_label, ensure_windows_table and main.                          *)
(*                                                                         *)
(* Time is counted in whole ticks of the timedelta resolution, so          *)
(* WINDOW_SECONDS and STRIDE_SECONDS are durations in ticks.  A DataFrame  *)
(* is the sequence of its rows; a row carries its index label (idx), the   *)
(* volunteer, the timestamp and the activity.  The six sensor columns only *)
(* feed the numeric statistics, which are kept as the key set of the       *)
(* feature dict.                                                           *)
(***************************************************************************)
EXTENDS Integers, Sequences, FiniteSets, TLC

VARIABLES
    raw,             \* rows of table raw_sensor_data
    windows,         \* committed rows of table windows
    windows0,        \* history: rows of table windows when the run began
    tableExists,     \* whether table windows (and its index) exists
    WINDOW_SECONDS,  \* window length, in ticks
    STRIDE_SECONDS,  \* stride, in ticks
    columns,         \* column names of the frame handed to the functions
    pc,              \* position of the run
    df,              \* main: the fetched frame
    groups,          \* main: volunteer ids groupby has still to deliver
    vid,             \* main: volunteer of the current group
    df_v,            \* the frame window_iter runs over
    t_start,         \* window_iter: start of the next window
    t_max,           \* window_iter: largest timestamp of df_v
    emitted,         \* history: what window_iter has yielded
    txn,             \* rows inserted on the open connection, not committed
    total,           \* main: counter of created windows
    warned,          \* whether the [WARN] line was printed
    ddl,             \* DDL scripts executed against the store
    inserts,         \* INSERT statements executed against the store
    labelCalls,      \* calls of majority_label made by main
    ret              \* result of the functions applied on their own

vars == <<raw, windows, windows0, tableExists, WINDOW_SECONDS, STRIDE_SECONDS,
          columns, pc, df, groups, vid, df_v, t_start, t_max, emitted, txn,
          total, warned, ddl, inserts, labelCalls, ret>>

-----------------------------------------------------------------------------
(* Bounds of the inputs *)

MaxT == 3
MaxW == 2
MaxS == 2

Times == 0 .. MaxT
Subjects == {1, 2}
Activities == {"walk", "fall"}
None == "None"
NoTime == -1

(* Rows sharing one timestamp of one volunteer, by activity. *)
Cells == { <<>>,
           <<"fall", "walk">>,
           <<"fall", "fall", "walk">>,
           <<"walk", "walk", "fall">> }

RECURSIVE Build(_, _, _)
Build(v, c, t) ==
    IF t > MaxT THEN <<>>
    ELSE [k \in 1 .. Len(c[t]) |->
            [volunteer_id |-> v, timestamp |-> t, activity |-> c[t][k]]]
         \o Build(v, c, t + 1)

Reindex(rows) ==
    [i \in 1 .. Len(rows) |->
        [idx |-> i - 1, volunteer_id |-> rows[i].volunteer_id,
         timestamp |-> rows[i].timestamp, activity |-> rows[i].activity]]

Reverse(s) == [i \in 1 .. Len(s) |-> s[Len(s) + 1 - i]]

(* The second volunteer: absent, sparse from tick 1 on, dense from tick 1 on,
   or dense throughout. *)
OtherKinds == {"absent", "sparse", "late", "dense"}
OtherCells(kind) ==
    [t \in Times |->
        IF kind = "absent" THEN <<>>
        ELSE IF kind = "sparse"
             THEN (IF t = 0 THEN <<>> ELSE <<"fall", "walk">>)
        ELSE IF kind = "late"
             THEN (IF t = 0 THEN <<>> ELSE <<"fall", "fall", "walk">>)
        ELSE <<"walk", "walk", "fall">>]

(* A row left in table windows by an earlier run. *)
PriorRow == [volunteer_id |-> 1, t_start |-> 0, t_end |-> 1,
             label |-> "walk", features |-> {<<"prior", "run">>}]

-----------------------------------------------------------------------------
(* Frames *)

SENSOR_COLS == {"accel_x", "accel_y", "accel_z", "gyro_x", "gyro_y", "gyro_z"}
FetchColumns == {"volunteer_id", "activity", "timestamp"} \cup SENSOR_COLS

(* Variant: the emptiness test never answers yes. *)
IsEmpty_never(frame) == FALSE

IsEmpty(frame) == frame = <<>>

TsSet(frame) == {frame[i].timestamp : i \in DOMAIN frame}
TsMin(frame) == CHOOSE m \in TsSet(frame) : \A x \in TsSet(frame) : m <= x
TsMax(frame) == CHOOSE m \in TsSet(frame) : \A x \in TsSet(frame) : m >= x

RECURSIVE SortedSeq(_)
SortedSeq(S) ==
    IF S = {} THEN <<>>
    ELSE LET m == CHOOSE x \in S : \A y \in S : x <= y
         IN  <<m>> \o SortedSeq(S \ {m})

(* df.groupby("volunteer_id"): the keys in ascending order, each with its rows. *)
groupby_keys(frame) == SortedSeq({frame[i].volunteer_id : i \in DOMAIN frame})

(* Variant: every group is handed the whole frame. *)
GroupOf_all(frame, v) == frame

GroupOf(frame, v) == SelectSeq(frame, LAMBDA r : r.volunteer_id = v)

RECURSIVE sort_values(_)
sort_values(frame) ==
    IF frame = <<>> THEN <<>>
    ELSE LET m == TsMin(frame)
         IN  SelectSeq(frame, LAMBDA r : r.timestamp = m)
             \o sort_values(SelectSeq(frame, LAMBDA r : r.timestamp # m))

-----------------------------------------------------------------------------
(* window_iter *)

(* Variant: the loop test forgets the window length. *)
window_cond_no_len(ts, win_s, tmax) == ts <= tmax

window_cond(ts, win_s, tmax) == ts + win_s <= tmax

window_end(ts, win_s) == ts + win_s

(* Variants: the lower bound exclusive; the upper bound inclusive. *)
window_chunk_open(frame, ts, te) ==
    SelectSeq(frame, LAMBDA r : r.timestamp > ts /\ r.timestamp < te)

window_chunk_closed(frame, ts, te) ==
    SelectSeq(frame, LAMBDA r : r.timestamp >= ts /\ r.timestamp <= te)

window_chunk(frame, ts, te) ==
    SelectSeq(frame, LAMBDA r : r.timestamp >= ts /\ r.timestamp < te)

(* Variants: advance by the window length; do not advance. *)
window_next_by_window(ts, stride_s) == ts + WINDOW_SECONDS

window_next_stuck(ts, stride_s) == ts

window_next(ts, stride_s) == ts + stride_s

Yielded(v, frame, ts, win_s) ==
    [vid |-> v, t_start |-> ts, t_end |-> window_end(ts, win_s),
     chunk |-> window_chunk(frame, ts, window_end(ts, win_s))]

-----------------------------------------------------------------------------
(* featureize and majority_label *)

MinSamples == 5

Channels == SENSOR_COLS \cup {"acc_mag", "gyro_mag"}
Stats == {"mean", "std", "min", "max", "p25", "p50", "p75", "energy"}
CorrKeys == {<<"corr", "accel_x_accel_y">>, <<"corr", "accel_x_accel_z">>,
             <<"corr", "accel_y_accel_z">>}
FeatureKeys == (Channels \X Stats) \cup CorrKeys

(* Variant: the size test is off by one. *)
featureize_lax(chunk) == IF Len(chunk) < MinSamples - 1 THEN {} ELSE FeatureKeys

featureize(chunk) == IF Len(chunk) < MinSamples THEN {} ELSE FeatureKeys

(* chunk["activity"].value_counts(): the values that occur, with their counts. *)
value_counts(chunk) ==
    [a \in {chunk[i].activity : i \in DOMAIN chunk} |->
        Cardinality({i \in DOMAIN chunk : chunk[i].activity = a})]

(* Variant: a value of smallest count. *)
idxmin(counts) ==
    {a \in DOMAIN counts : \A b \in DOMAIN counts : counts[a] <= counts[b]}

(* counts.idxmax(): a value of largest count; which one among equal counts is
   left to the order value_counts happens to produce. *)
idxmax(counts) ==
    {a \in DOMAIN counts : \A b \in DOMAIN counts : counts[a] >= counts[b]}

(* The labels majority_label may return. *)
majority_label(cols, chunk) ==
    IF "activity" \notin cols \/ IsEmpty(chunk) THEN {None}
    ELSE IF DOMAIN value_counts(chunk) = {} THEN {None}
         ELSE idxmax(value_counts(chunk))

-----------------------------------------------------------------------------
(* main *)

(* Variant: the pending rows are committed on the way out. *)
OnError_commit(pending) == pending

(* What leaving the "with get_conn() as conn" block on an exception keeps of
   the rows inserted so far: the connection rolls back. *)
OnError(pending) == <<>>

WindowRow(v, e, label, feats) ==
    [volunteer_id |-> v, t_start |-> e.t_start, t_end |-> e.t_end,
     label |-> label, features |-> feats]

Init ==
    /\ \E c1 \in [Times -> Cells], k2 \in OtherKinds :
         raw = Reindex(Build(1, c1, 0) \o Build(2, OtherCells(k2), 0))
    /\ tableExists \in BOOLEAN
    /\ windows = IF tableExists THEN <<PriorRow>> ELSE <<>>
    /\ windows0 = windows
    /\ WINDOW_SECONDS \in 1 .. MaxW
    /\ STRIDE_SECONDS \in 1 .. MaxS
    /\ columns = FetchColumns
    /\ pc = "start"
    /\ df = <<>>
    /\ groups = <<>>
    /\ vid = 0
    /\ df_v = <<>>
    /\ t_start = NoTime
    /\ t_max = NoTime
    /\ emitted = <<>>
    /\ txn = <<>>
    /\ total = 0
    /\ warned = FALSE
    /\ ddl = 0
    /\ inserts = 0
    /\ labelCalls = 0
    /\ ret = None

(* ensure_windows_table(): CREATE TABLE / CREATE INDEX IF NOT EXISTS, committed. *)
EnsureTable ==
    /\ pc = "start"
    /\ tableExists' = TRUE
    /\ ddl' = ddl + 1
    /\ pc' = "fetch"
    /\ UNCHANGED <<raw, windows, windows0, WINDOW_SECONDS, STRIDE_SECONDS,
                   columns, df, groups, vid, df_v, t_start, t_max, emitted,
                   txn, total, warned, inserts, labelCalls, ret>>

(* fetch_raw_df() returned no rows: warn and return. *)
FetchEmpty ==
    /\ pc = "fetch"
    /\ IsEmpty(raw)
    /\ df' = raw
    /\ warned' = TRUE
    /\ pc' = "done"
    /\ UNCHANGED <<raw, windows, windows0, tableExists, WINDOW_SECONDS,
                   STRIDE_SECONDS, columns, groups, vid, df_v, t_start, t_max,
                   emitted, txn, total, ddl, inserts, labelCalls, ret>>

(* fetch_raw_df() returned rows: total = 0, open the connection, start groupby. *)
FetchRows ==
    /\ pc = "fetch"
    /\ ~IsEmpty(raw)
    /\ df' = raw
    /\ total' = 0
    /\ groups' = groupby_keys(raw)
    /\ pc' = "loop"
    /\ UNCHANGED <<raw, windows, windows0, tableExists, WINDOW_SECONDS,
                   STRIDE_SECONDS, columns, vid, df_v, t_start, t_max, emitted,
                   txn, warned, ddl, inserts, labelCalls, ret>>

(* The next group: sort it and enter window_iter up to its loop test. *)
NextGroup ==
    /\ pc = "loop"
    /\ groups # <<>>
    /\ vid' = Head(groups)
    /\ groups' = Tail(groups)
    /\ df_v' = sort_values(GroupOf(df, Head(groups)))
    /\ IF IsEmpty(df_v')
       THEN /\ pc' = "loop"
            /\ UNCHANGED <<t_start, t_max>>
       ELSE /\ t_start' = TsMin(df_v')
            /\ t_max' = TsMax(df_v')
            /\ pc' = "iter"
    /\ UNCHANGED <<raw, windows, windows0, tableExists, WINDOW_SECONDS,
                   STRIDE_SECONDS, columns, df, emitted, txn, total, warned,
                   ddl, inserts, labelCalls, ret>>

(* window_iter yields a window and main's loop body handles it. *)
IterBody ==
    /\ pc = "iter"
    /\ window_cond(t_start, WINDOW_SECONDS, t_max)
    /\ LET e == Yielded(vid, df_v, t_start, WINDOW_SECONDS)
           feats == featureize(e.chunk)
       IN  /\ emitted' = Append(emitted, e)
           /\ IF feats = {}
              THEN UNCHANGED <<txn, total, inserts, labelCalls>>
              ELSE \E label \in majority_label(columns, e.chunk) :
                     /\ labelCalls' = labelCalls + 1
                     /\ txn' = Append(txn, WindowRow(vid, e, label, feats))
                     /\ inserts' = inserts + 1
                     /\ total' = total + 1
    /\ t_start' = window_next(t_start, STRIDE_SECONDS)
    /\ UNCHANGED <<raw, windows, windows0, tableExists, WINDOW_SECONDS,
                   STRIDE_SECONDS, columns, pc, df, groups, vid, df_v, t_max,
                   warned, ddl, ret>>

(* window_iter's loop test fails: the generator is exhausted. *)
IterExhausted ==
    /\ pc = "iter"
    /\ ~window_cond(t_start, WINDOW_SECONDS, t_max)
    /\ pc' = "loop"
    /\ UNCHANGED <<raw, windows, windows0, tableExists, WINDOW_SECONDS,
                   STRIDE_SECONDS, columns, df, groups, vid, df_v, t_start,
                   t_max, emitted, txn, total, warned, ddl, inserts,
                   labelCalls, ret>>

(* All groups done: conn.commit(), leave the with block, print the count. *)
Commit ==
    /\ pc = "loop"
    /\ groups = <<>>
    /\ windows' = windows \o txn
    /\ txn' = <<>>
    /\ pc' = "done"
    /\ UNCHANGED <<raw, windows0, tableExists, WINDOW_SECONDS, STRIDE_SECONDS,
                   columns, df, groups, vid, df_v, t_start, t_max, emitted,
                   total, warned, ddl, inserts, labelCalls, ret>>

(* An exception (store unreachable, a failing statement, a failing commit)
   ends the run: the with block rolls the connection back. *)
Fail ==
    /\ pc \in {"start", "fetch", "loop", "iter"}
    /\ windows' = windows \o OnError(txn)
    /\ txn' = <<>>
    /\ pc' = "failed"
    /\ UNCHANGED <<raw, windows0, tableExists, WINDOW_SECONDS, STRIDE_SECONDS,
                   columns, df, groups, vid, df_v, t_start, t_max, emitted,
                   total, warned, ddl, inserts, labelCalls, ret>>

Next ==
    \/ EnsureTable
    \/ FetchEmpty
    \/ FetchRows
    \/ NextGroup
    \/ IterBody
    \/ IterExhausted
    \/ Commit
    \/ Fail

Spec == Init /\ [][Next]_vars

-----------------------------------------------------------------------------
(* The functions on their own: window_iter driven to exhaustion over one
   frame, then majority_label and featureize applied to that frame. *)

InitFn ==
    /\ \E c1 \in [Times -> Cells], rev \in BOOLEAN :
         df_v = IF rev THEN Reverse(Reindex(Build(1, c1, 0)))
                       ELSE Reindex(Build(1, c1, 0))
    /\ columns \in {FetchColumns, FetchColumns \ {"activity"}}
    /\ WINDOW_SECONDS \in 1 .. MaxW
    /\ STRIDE_SECONDS \in 1 .. MaxS
    /\ pc = "fn_start"
    /\ raw = <<>>
    /\ windows = <<>>
    /\ windows0 = <<>>
    /\ tableExists = FALSE
    /\ df = <<>>
    /\ groups = <<>>
    /\ vid = 1
    /\ t_start = NoTime
    /\ t_max = NoTime
    /\ emitted = <<>>
    /\ txn = <<>>
    /\ total = 0
    /\ warned = FALSE
    /\ ddl = 0
    /\ inserts = 0
    /\ labelCalls = 0
    /\ ret = None

(* First next(): return at once on an empty frame, else run to the loop test. *)
FnStart ==
    /\ pc = "fn_start"
    /\ IF IsEmpty(df_v)
       THEN /\ pc' = "fn_returned"
            /\ UNCHANGED <<t_start, t_max>>
       ELSE /\ t_start' = TsMin(df_v)
            /\ t_max' = TsMax(df_v)
            /\ pc' = "fn_loop"
    /\ UNCHANGED <<raw, windows, windows0, tableExists, WINDOW_SECONDS,
                   STRIDE_SECONDS, columns, df, groups, vid, df_v, emitted,
                   txn, total, warned, ddl, inserts, labelCalls, ret>>

FnYield ==
    /\ pc = "fn_loop"
    /\ window_cond(t_start, WINDOW_SECONDS, t_max)
    /\ emitted' = Append(emitted, Yielded(vid, df_v, t_start, WINDOW_SECONDS))
    /\ t_start' = window_next(t_start, STRIDE_SECONDS)
    /\ UNCHANGED <<raw, windows, windows0, tableExists, WINDOW_SECONDS,
                   STRIDE_SECONDS, columns, pc, df, groups, vid, df_v, t_max,
                   txn, total, warned, ddl, inserts, labelCalls, ret>>

FnStop ==
    /\ pc = "fn_loop"
    /\ ~window_cond(t_start, WINDOW_SECONDS, t_max)
    /\ pc' = "fn_returned"
    /\ UNCHANGED <<raw, windows, windows0, tableExists, WINDOW_SECONDS,
                   STRIDE_SECONDS, columns, df, groups, vid, df_v, t_start,
                   t_max, emitted, txn, total, warned, ddl, inserts,
                   labelCalls, ret>>

FnResolve ==
    /\ pc = "fn_returned"
    /\ \E label \in majority_label(columns, df_v) :
         ret' = [label |-> label, features |-> featureize(df_v)]
    /\ pc' = "fn_done"
    /\ UNCHANGED <<raw, windows, windows0, tableExists, WINDOW_SECONDS,
                   STRIDE_SECONDS, columns, df, groups, vid, df_v, t_start,
                   t_max, emitted, txn, total, warned, ddl, inserts,
                   labelCalls>>

NextFn ==
    \/ FnStart
    \/ FnYield
    \/ FnStop
    \/ FnResolve

SpecFn == InitFn /\ [][NextFn]_vars

(* The consumer keeps calling next() and the calls return, so no step that is
   enabled is put off for ever. *)
FairSpecFn == SpecFn /\ WF_vars(NextFn)

-----------------------------------------------------------------------------
(* Properties of window_iter *)

Span(frame) == TsMax(frame) - TsMin(frame)

InRange(frame, ts, te) ==
    {frame[i].idx : i \in {j \in DOMAIN frame :
                             ts <= frame[j].timestamp /\ frame[j].timestamp < te}}

(* C1: every window emitted by window_iter has t_end - t_start equal to the
   window length, the first t_start is the smallest timestamp of the series,
   and consecutive t_start values differ by exactly the stride. *)
C1_LengthAndStride ==
    \A i \in DOMAIN emitted :
        /\ emitted[i].t_end - emitted[i].t_start = WINDOW_SECONDS
        /\ (i = 1 => emitted[i].t_start = TsMin(df_v))
        /\ (i > 1 => emitted[i].t_start - emitted[i - 1].t_start = STRIDE_SECONDS)

C1_Witness ==
    /\ pc = "fn_returned"
    /\ Len(emitted) >= 2
    /\ WINDOW_SECONDS # STRIDE_SECONDS

(* C2: the subset of every emitted window holds exactly the rows of the series
   with t_start <= timestamp < t_end, each once. *)
C2_HalfOpenSubset ==
    \A i \in DOMAIN emitted :
        LET e == emitted[i] IN
        /\ {e.chunk[j].idx : j \in DOMAIN e.chunk}
             = InRange(df_v, e.t_start, e.t_end)
        /\ Len(e.chunk) = Cardinality(InRange(df_v, e.t_start, e.t_end))
        /\ \A j \in DOMAIN e.chunk : \E k \in DOMAIN df_v : df_v[k] = e.chunk[j]

C2_Witness ==
    \E i \in DOMAIN emitted :
        LET e == emitted[i] IN
        /\ \E j \in DOMAIN e.chunk : e.chunk[j].timestamp = e.t_start
        /\ \E k \in DOMAIN df_v : df_v[k].timestamp = e.t_end
        /\ \E k \in DOMAIN df_v : df_v[k].timestamp < e.t_start

(* C6: window_iter yields nothing for an empty series, and nothing for a
   series whose span t_max - t_min is smaller than the window length. *)
C6_NoWindows ==
    (df_v = <<>> \/ Span(df_v) < WINDOW_SECONDS) => emitted = <<>>

C6_Witness ==
    /\ pc = "fn_returned"
    /\ df_v # <<>>
    /\ Span(df_v) > 0
    /\ Span(df_v) < WINDOW_SECONDS
    /\ emitted = <<>>

(* The number of windows that fit the series. *)
Fitting(frame, win_s, stride_s) ==
    IF frame = <<>> \/ Span(frame) < win_s THEN 0
    ELSE ((Span(frame) - win_s) \div stride_s) + 1

(* C9: window_iter terminates: it never yields more than the windows that
   fit, every yielded window ends at or before t_max, and it stops at the
   first t_start whose window would pass t_max. *)
C9_Terminates ==
    /\ Len(emitted) <= Fitting(df_v, WINDOW_SECONDS, STRIDE_SECONDS)
    /\ \A i \in DOMAIN emitted : emitted[i].t_end <= TsMax(df_v)
    /\ pc = "fn_loop" => ENABLED (FnYield \/ FnStop)
    /\ pc \in {"fn_returned", "fn_done"} =>
         /\ Len(emitted) = Fitting(df_v, WINDOW_SECONDS, STRIDE_SECONDS)
         /\ df_v # <<>> =>
              /\ t_start + WINDOW_SECONDS > t_max
              /\ \A i \in DOMAIN emitted : emitted[i].t_start < t_start
              /\ emitted # <<>> =>
                   t_start = emitted[Len(emitted)].t_start + STRIDE_SECONDS

(* With the steps taken when enabled, window_iter returns on every input. *)
EventuallyReturns == <>(pc = "fn_done")

C9_Witness ==
    /\ pc = "fn_returned"
    /\ Len(emitted) >= 2
    /\ t_start <= t_max

-----------------------------------------------------------------------------
(* Properties of majority_label *)

Occurrences(chunk, a) == Cardinality({i \in DOMAIN chunk : chunk[i].activity = a})

(* C8: on a non-empty subset with an activity column majority_label returns a
   label occurring at least as often as every other label of the subset; on
   an empty subset, or without the activity column, it returns None. *)
C8_MajorityLabel ==
    pc = "fn_done" =>
        IF "activity" \notin columns \/ df_v = <<>>
        THEN ret.label = None
        ELSE /\ ret.label \in Activities
             /\ Occurrences(df_v, ret.label) > 0
             /\ \A a \in Activities :
                    Occurrences(df_v, ret.label) >= Occurrences(df_v, a)

C8_Witness ==
    /\ pc = "fn_done"
    /\ ret.label = "fall"
    /\ Occurrences(df_v, "walk") > 0
    /\ Occurrences(df_v, "fall") > Occurrences(df_v, "walk")

-----------------------------------------------------------------------------
(* Properties of main *)

Own(v) == SelectSeq(raw, LAMBDA r : r.volunteer_id = v)

Accepted == SelectSeq(emitted, LAMBDA e : Len(e.chunk) >= 5)

(* The rows this run has put into table windows: pending, then committed. *)
NewRows ==
    IF pc = "done" THEN SubSeq(windows, Len(windows0) + 1, Len(windows))
    ELSE txn

SameWindow(r, e) ==
    r.volunteer_id = e.vid /\ r.t_start = e.t_start /\ r.t_end = e.t_end

(* C3: main inserts an emitted window exactly when its subset has at least 5
   samples: the inserted rows are the windows of 5 or more samples in the
   order they were emitted, and majority_label and INSERT have run once for
   each of them and for no other window. *)
C3_InsertIffFiveSamples ==
    /\ inserts = Len(Accepted)
    /\ labelCalls = Len(Accepted)
    /\ pc # "failed" =>
         /\ Len(NewRows) = Len(Accepted)
         /\ \A i \in DOMAIN NewRows : SameWindow(NewRows[i], Accepted[i])
    /\ \A i \in DOMAIN windows :
         i > Len(windows0) =>
            \E j \in DOMAIN emitted :
                SameWindow(windows[i], emitted[j]) /\ Len(emitted[j].chunk) >= 5

C3_Witness ==
    /\ pc = "done"
    /\ Len(NewRows) >= 1
    /\ \E j \in DOMAIN emitted : Len(emitted[j].chunk) = 4
    /\ \E j \in DOMAIN emitted : Len(emitted[j].chunk) = 5

(* C4: table windows changes only at the one commit that ends a run: until
   then, and after a failure at any step, it holds what it held when the run
   began; after the commit it holds in addition every accepted window. *)
C4_OneAtomicCommit ==
    /\ pc # "done" => windows = windows0
    /\ pc = "failed" => txn = <<>>
    /\ pc = "done" =>
         /\ SubSeq(windows, 1, Len(windows0)) = windows0
         /\ Len(windows) = Len(windows0) + Len(Accepted)
         /\ \A i \in DOMAIN Accepted :
                SameWindow(windows[Len(windows0) + i], Accepted[i])

C4_Witness ==
    /\ pc = "failed"
    /\ inserts >= 2
    /\ groups # <<>>
    /\ windows0 # <<>>
    /\ windows = windows0

(* C5 as claimed: on an empty raw source the run persists 0 windows, warns,
   and executes no write statement against the store. *)
C5_ZeroWrites ==
    (pc = "done" /\ raw = <<>>) =>
        /\ total = 0
        /\ warned
        /\ ddl + inserts = 0

(* C5 as amended: on an empty raw source the run persists 0 windows, warns,
   and executes no INSERT; its one write is the CREATE TABLE / CREATE INDEX
   IF NOT EXISTS script of ensure_windows_table, which runs before the fetch. *)
C5_NoInsertOnEmpty ==
    (pc = "done" /\ raw = <<>>) =>
        /\ total = 0
        /\ warned
        /\ inserts = 0
        /\ txn = <<>>
        /\ windows = windows0
        /\ ddl = 1
        /\ tableExists

C5_Witness ==
    /\ pc = "done"
    /\ raw = <<>>
    /\ warned
    /\ windows0 = <<>>
    /\ tableExists

(* The windows that fit the rows own of one volunteer and hold 5 or more. *)
ExpectedStarts(own) ==
    IF own = <<>> THEN {}
    ELSE LET lo == TsMin(own)
             hi == TsMax(own)
         IN  {s \in lo .. hi :
                /\ (s - lo) % STRIDE_SECONDS = 0
                /\ s + WINDOW_SECONDS <= hi}

ExpectedWindows(own) ==
    {<<s, s + WINDOW_SECONDS>> :
        s \in {x \in ExpectedStarts(own) :
                 Cardinality(InRange(own, x, x + WINDOW_SECONDS)) >= 5}}

OwnCount(own, ts, te, a) ==
    Cardinality({i \in DOMAIN own :
        /\ own[i].activity = a
        /\ ts <= own[i].timestamp
        /\ own[i].timestamp < te})

(* C7: subjects do not interact: every emitted subset holds rows of its own
   volunteer only and lies within that volunteer's own first and last
   timestamps, and the windows persisted for a volunteer are a function of
   that volunteer's rows alone (the windows that fit them, each labelled by a
   most frequent activity among them). *)
C7_SubjectsIndependent ==
    /\ \A i \in DOMAIN emitted :
         LET e == emitted[i]
             own == Own(e.vid)
             lo == TsMin(own)
         IN  /\ \A j \in DOMAIN e.chunk : e.chunk[j].volunteer_id = e.vid
             /\ e.t_start >= lo
             /\ e.t_end <= TsMax(own)
             /\ (e.t_start - lo) % STRIDE_SECONDS = 0
    /\ pc = "done" =>
         \A v \in Subjects :
            LET rows == SelectSeq(NewRows, LAMBDA r : r.volunteer_id = v)
                own == Own(v)
                expected == ExpectedWindows(own)
            IN  /\ {<<rows[i].t_start, rows[i].t_end>> : i \in DOMAIN rows}
                     = expected
                /\ Len(rows) = Cardinality(expected)
                /\ \A i \in DOMAIN rows : \A a \in Activities :
                     OwnCount(own, rows[i].t_start, rows[i].t_end, rows[i].label)
                       >= OwnCount(own, rows[i].t_start, rows[i].t_end, a)

C7_Witness ==
    /\ pc = "done"
    /\ \E i, j \in DOMAIN NewRows :
         /\ NewRows[i].volunteer_id = 1
         /\ NewRows[j].volunteer_id = 2
         /\ NewRows[i].t_start # NewRows[j].t_start
         /\ NewRows[i].label # NewRows[j].label
    /\ TsMax(Own(1)) # TsMax(Own(2))

(* C10: no emitted subset holds a row whose timestamp is the largest of its
   volunteer, so no persisted window covers that timestamp. *)
C10_LastSampleExcluded ==
    /\ \A i \in DOMAIN emitted :
         LET last == TsMax(Own(emitted[i].vid))
         IN  \A j \in DOMAIN emitted[i].chunk :
                emitted[i].chunk[j].timestamp < last
    /\ \A i \in DOMAIN NewRows :
         NewRows[i].t_end <= TsMax(Own(NewRows[i].volunteer_id))

C10_Witness ==
    /\ pc = "done"
    /\ \E i \in DOMAIN NewRows :
         NewRows[i].t_end = TsMax(Own(NewRows[i].volunteer_id))

====
